---- MODULE Spec2Model ----
(***************************************************************************)
(* utils::singleton<T> (src/singleton.hpp).                                *)
(*                                                                         *)
(* The header holds two implementations of singleton<T>::instance():       *)
(*   "legacy" - lines 65-118, the mutex guarded double check on the plain  *)
(*              pointer object_, with the guard object destroy_object_;    *)
(*   "local"  - lines 165-178, the function-local static `static T object`.*)
(* The preprocessor picks one for the whole build; the model draws the     *)
(* choice in Init.  The user types T are inputs of the template: what a    *)
(* constructor and a destructor of T call is drawn in Init as well.        *)
(***************************************************************************)
EXTENDS Integers, Sequences, FiniteSets, TLC

\* Number of threads; thread 1 is the thread that runs main() and exit().
NThreads == 2
\* Number of instance() calls the threads' own code makes in one run.
MaxCalls == 2
\* Number of times a constructor of a user type throws in one run.
MaxThrows == 1

Types == {"A", "B"}
None == "none"
NULL == 0
Threads == 1 .. NThreads
MainThread == 1

VARIABLES
    impl,       \* "legacy" or "local": the branch of the #if at line 45
    ctorCall,   \* ctorCall[T]: the type whose instance() T::T() calls, or None
    dtorCall,   \* dtorCall[T]: the other type whose instance() T::~T() calls, or None
    object_,    \* legacy: static T* object_ (line 93); NULL or an object id
    mutex_,     \* legacy: static boost::mutex mutex_ (line 94); 0 or the holder
    object,     \* local: static T object (line 171); 0 until initialised, then its id
    initGuard,  \* local: the thread initialising `object`, or 0
    objs,       \* every T object whose construction began: [ty, st, dtors]
    stack,      \* stack[t]: the call frames of thread t, innermost last
    throwing,   \* throwing[t]: an exception is unwinding thread t's frames
    result,     \* result[t]: how thread t's latest own call ended
    returned,   \* returned[T]: the ids instance() of T has handed out
    atexit,     \* the destructors registered for exit, run last to first
    phase,      \* "run", "exit", "done", "aborted"
    liveAtExit, \* the types whose instance was live when exit began
    accessed,   \* the types whose instance() has been called
    ncalls,     \* calls made by the threads' own code so far
    nthrows     \* constructor failures so far

config == <<impl, ctorCall, dtorCall>>
vars == <<impl, ctorCall, dtorCall, object_, mutex_, object, initGuard, objs,
          stack, throwing, result, returned, atexit, phase, liveAtExit,
          accessed, ncalls, nthrows>>

----------------------------------------------------------------------------
\* Frames and objects

Ids == 1 .. Len(objs)

\* instance() begins at the first check (line 71) or at the static (line 171).
Entry == IF impl = "legacy" THEN "check1" ELSE "enter"

\* The object first stored in T's slot, or 0 while none has been published.
FirstPublished(T) ==
    LET pub == {i \in Ids : /\ objs[i].ty = T
                            /\ \/ objs[i].st \in {"live", "destroying", "destroyed"}
                               \/ object_[T] = i
                               \/ object[T] = i}
    IN IF pub = {} THEN 0 ELSE CHOOSE i \in pub : \A j \in pub : i <= j

\* A frame of instance() of T; `after` is the object already published when
\* the call began (0 if none).
Frame(T) == [op |-> "instance", ty |-> T, pc |-> Entry, obj |-> 0,
             after |-> FirstPublished(T)]
\* A frame of the destruction of T's instance: destroy() in the legacy build
\* (lines 87-91), T::~T() run by exit in the local-static build.
DtorFrame(T, id) == [op |-> "dtor", ty |-> T, pc |-> "dtor", obj |-> id,
                     after |-> 0]

Top(t) == stack[t][Len(stack[t])]
SetTop(t, f) == [stack EXCEPT ![t] = [@ EXCEPT ![Len(@)] = f]]
Push(s, t, f) == [s EXCEPT ![t] = Append(@, f)]
Pop(t) == [stack EXCEPT ![t] = SubSeq(@, 1, Len(@) - 1)]
At(t, op, pc) == /\ phase \in {"run", "exit"}
                 /\ stack[t] # <<>>
                 /\ ~throwing[t]
                 /\ Top(t).op = op
                 /\ Top(t).pc = pc

\* The pointer or static the slot of T holds in this build.
Slot(T) == IF impl = "legacy" THEN object_[T] ELSE object[T]

Orders(S) == {s \in [1 .. Cardinality(S) -> S] :
                       \A i, j \in 1 .. Cardinality(S) : s[i] = s[j] => i = j}

NoResult == [st |-> "none", obj |-> 0]

SetSt(o, id, st) == IF id = 0 THEN o ELSE [o EXCEPT ![id].st = st]

----------------------------------------------------------------------------
Init ==
    /\ impl \in {"legacy", "local"}
    /\ ctorCall \in [Types -> Types \cup {None}]
    /\ dtorCall \in {d \in [Types -> Types \cup {None}] :
                        \A T \in Types : d[T] # T}
    /\ object_ = [T \in Types |-> NULL]
    /\ mutex_ = [T \in Types |-> 0]
    /\ object = [T \in Types |-> 0]
    /\ initGuard = [T \in Types |-> 0]
    /\ objs = <<>>
    /\ stack = [t \in Threads |-> <<>>]
    /\ throwing = [t \in Threads |-> FALSE]
    /\ result = [t \in Threads |-> NoResult]
    /\ returned = [T \in Types |-> {}]
    \* legacy: the guards destroy_object_ (line 118) are statics of a template,
    \* whose initialisation, and so whose destruction, is unordered among the
    \* instantiations.  local: nothing is registered before a construction.
    /\ atexit \in IF impl = "legacy" THEN Orders(Types) ELSE {<<>>}
    /\ phase = "run"
    /\ liveAtExit = [T \in Types |-> 0]
    /\ accessed = {}
    /\ ncalls = 0
    /\ nthrows = 0

----------------------------------------------------------------------------
\* A thread's own code calls singleton<T>::instance().
Call(t, T) ==
    /\ phase = "run"
    /\ stack[t] = <<>>
    /\ ~throwing[t]
    /\ ncalls < MaxCalls
    /\ stack' = Push(stack, t, Frame(T))
    /\ result' = [result EXCEPT ![t] = NoResult]
    /\ accessed' = accessed \cup {T}
    /\ ncalls' = ncalls + 1
    /\ UNCHANGED <<config, object_, mutex_, object, initGuard, objs, throwing,
                   returned, atexit, phase, liveAtExit, nthrows>>

----------------------------------------------------------------------------
\* The legacy build, lines 69-81

\* line 71: if (object_ == NULL), read without the lock
FirstCheckNull(T) == object_[T] = NULL

FirstCheck(t) ==
    /\ At(t, "instance", "check1")
    /\ LET f == Top(t) IN
       stack' = SetTop(t, [f EXCEPT !.pc = IF FirstCheckNull(f.ty)
                                            THEN "lock" ELSE "ret"])
    /\ UNCHANGED <<config, object_, mutex_, object, initGuard, objs, throwing,
                   result, returned, atexit, phase, liveAtExit, accessed,
                   ncalls, nthrows>>

\* A lock that excludes nobody.
MutexIgnored(T) == TRUE

\* One mutex shared by every singleton<T>: the lock is free only when no
\* type's lock is held.
MutexShared(T) == \A U \in Types : mutex_[U] = 0

\* A recursive mutex: the lock is also granted while its holder asks for it.
MutexRecursive(T) ==
    \/ mutex_[T] = 0
    \/ \E t \in Threads : /\ mutex_[T] = t
                          /\ At(t, "instance", "lock")
                          /\ Top(t).ty = T

\* line 73: boost::mutex is not recursive; a thread that holds mutex_ waits
\* here like any other.
MutexFree(T) == mutex_[T] = 0

Lock(t) ==
    /\ At(t, "instance", "lock")
    /\ LET f == Top(t) IN
       /\ MutexFree(f.ty)
       /\ mutex_' = [mutex_ EXCEPT ![f.ty] = t]
       /\ stack' = SetTop(t, [f EXCEPT !.pc = "check2"])
    /\ UNCHANGED <<config, object_, object, initGuard, objs, throwing, result,
                   returned, atexit, phase, liveAtExit, accessed, ncalls,
                   nthrows>>

\* The second check left out: whoever gets the lock constructs.
SecondCheckSkipped(T) == TRUE

\* line 74: if (object_ == NULL), read under the lock
SecondCheckNull(T) == object_[T] = NULL

\* line 76: object_ is a plain T*, so nothing orders the store to object_
\* after the writes of T::T().  A build may store the address of the
\* allocated memory before it runs a constructor it has inlined and that
\* cannot throw (one that calls no other instance()); TRUE is that order.
StoreOrders(T) == IF ctorCall[T] = None THEN {FALSE, TRUE} ELSE {FALSE}

\* lines 74-76: the second check and the allocation of `new T`
SecondCheck(t) ==
    /\ At(t, "instance", "check2")
    /\ LET f == Top(t)
           id == Len(objs) + 1
       IN IF SecondCheckNull(f.ty)
          THEN /\ objs' = Append(objs, [ty |-> f.ty, st |-> "constructing",
                                        dtors |-> 0])
               /\ stack' = SetTop(t, [f EXCEPT !.pc = "ctor", !.obj = id])
               /\ \E early \in StoreOrders(f.ty) :
                     object_' = IF early THEN [object_ EXCEPT ![f.ty] = id]
                                ELSE object_
          ELSE /\ stack' = SetTop(t, [f EXCEPT !.pc = "unlock"])
               /\ UNCHANGED <<objs, object_>>
    /\ UNCHANGED <<config, mutex_, object, initGuard, throwing, result,
                   returned, atexit, phase, liveAtExit, accessed, ncalls,
                   nthrows>>

\* T::T(): the body of the user type's constructor, which may call the
\* instance() of another singleton (both builds).
CtorBody(t) ==
    /\ At(t, "instance", "ctor")
    /\ LET f == Top(t)
           s == SetTop(t, [f EXCEPT !.pc = "ctorEnd"])
       IN /\ stack' = IF ctorCall[f.ty] = None THEN s
                      ELSE Push(s, t, Frame(ctorCall[f.ty]))
          /\ accessed' = IF ctorCall[f.ty] = None THEN accessed
                         ELSE accessed \cup {ctorCall[f.ty]}
    /\ UNCHANGED <<config, object_, mutex_, object, initGuard, objs, throwing,
                   result, returned, atexit, phase, liveAtExit, ncalls,
                   nthrows>>

\* lines 76-77: T::T() returns, `object_ = new T` stores the pointer (again,
\* if the build stored it first); do_nothing() does nothing.
Construct(t) ==
    /\ impl = "legacy"
    /\ At(t, "instance", "ctorEnd")
    /\ LET f == Top(t) IN
       /\ objs' = SetSt(objs, f.obj, "live")
       /\ object_' = [object_ EXCEPT ![f.ty] = f.obj]
       /\ stack' = SetTop(t, [f EXCEPT !.pc = "unlock"])
    /\ UNCHANGED <<config, mutex_, object, initGuard, throwing, result,
                   returned, atexit, phase, liveAtExit, accessed, ncalls,
                   nthrows>>

\* T::T() throws (both builds).  A constructor whose store the build moved
\* ahead cannot throw.
CtorThrow(t) ==
    /\ At(t, "instance", "ctorEnd")
    /\ nthrows < MaxThrows
    /\ LET f == Top(t) IN object_[f.ty] # f.obj
    /\ throwing' = [throwing EXCEPT ![t] = TRUE]
    /\ nthrows' = nthrows + 1
    /\ UNCHANGED <<config, object_, mutex_, object, initGuard, objs, stack,
                   result, returned, atexit, phase, liveAtExit, accessed,
                   ncalls>>

\* The end of the block reached with the mutex left locked.
UnlockKeeps(t) ==
    /\ At(t, "instance", "unlock")
    /\ stack' = SetTop(t, [Top(t) EXCEPT !.pc = "ret"])
    /\ UNCHANGED <<config, object_, mutex_, object, initGuard, objs, throwing,
                   result, returned, atexit, phase, liveAtExit, accessed,
                   ncalls, nthrows>>

\* line 79: the scoped_lock leaves scope
Unlock(t) ==
    /\ At(t, "instance", "unlock")
    /\ LET f == Top(t) IN
       /\ mutex_' = [mutex_ EXCEPT ![f.ty] = 0]
       /\ stack' = SetTop(t, [f EXCEPT !.pc = "ret"])
    /\ UNCHANGED <<config, object_, object, initGuard, objs, throwing, result,
                   returned, atexit, phase, liveAtExit, accessed, ncalls,
                   nthrows>>

\* line 80 / line 172: return *object_ / return object
Return(t) ==
    /\ At(t, "instance", "ret")
    /\ LET f == Top(t)
           ref == Slot(f.ty)
       IN /\ stack' = Pop(t)
          /\ returned' = [returned EXCEPT ![f.ty] = @ \cup {ref}]
          /\ result' = IF Len(stack[t]) = 1
                       THEN [result EXCEPT ![t] = [st |-> "ok", obj |-> ref]]
                       ELSE result
    /\ UNCHANGED <<config, object_, mutex_, object, initGuard, objs, throwing,
                   atexit, phase, liveAtExit, accessed, ncalls, nthrows>>

\* The pointer to the memory of the failed construction left in the slot.
SlotKeepsFailed(T, id) == id

\* The exception of T::T() leaves `object_ = new T` before the assignment:
\* the slot keeps the value it had (line 76).
SlotAfterThrow(T, id) == Slot(T)

\* The lock left held by the thread whose constructor threw.
HolderKept(t) == t

\* The scoped_lock is released when the exception leaves its scope (line 73);
\* the guard of the static is released when its initialisation throws.
HolderAfterThrow(t) == 0

\* An exception leaves one frame.  It leaves instance() through `new T`,
\* which frees the memory, and through the scoped_lock; it leaves the caller
\* of the outermost instance() as that call's failure; leaving a destructor
\* run by exit ends the process (std::terminate).
Unwind(t) ==
    /\ phase \in {"run", "exit"}
    /\ throwing[t]
    /\ stack[t] # <<>>
    /\ LET f == Top(t) IN
       IF f.op = "instance"
       THEN /\ objs' = SetSt(objs, f.obj, "failed")
            /\ object_' = IF impl = "legacy" /\ f.obj # 0
                          THEN [object_ EXCEPT ![f.ty] = SlotAfterThrow(f.ty, f.obj)]
                          ELSE object_
            /\ object' = IF impl = "local" /\ f.obj # 0
                         THEN [object EXCEPT ![f.ty] = SlotAfterThrow(f.ty, f.obj)]
                         ELSE object
            /\ mutex_' = IF impl = "legacy" /\ f.obj # 0
                         THEN [mutex_ EXCEPT ![f.ty] = HolderAfterThrow(t)]
                         ELSE mutex_
            /\ initGuard' = IF impl = "local" /\ f.obj # 0
                            THEN [initGuard EXCEPT ![f.ty] = HolderAfterThrow(t)]
                            ELSE initGuard
            /\ stack' = Pop(t)
            /\ throwing' = [throwing EXCEPT ![t] = Len(stack[t]) > 1]
            /\ result' = IF Len(stack[t]) = 1
                         THEN [result EXCEPT ![t] = [st |-> "failed", obj |-> 0]]
                         ELSE result
            /\ phase' = phase
       ELSE /\ phase' = "aborted"
            /\ UNCHANGED <<objs, object_, object, mutex_, initGuard, stack,
                           throwing, result>>
    /\ UNCHANGED <<config, returned, atexit, liveAtExit, accessed, ncalls,
                   nthrows>>

----------------------------------------------------------------------------
\* The local-static build, lines 169-173 (C++11 initialisation of a
\* function-local static: once, by one thread, the others wait)

\* line 171: `static T object` is reached
LocalEnter(t) ==
    /\ impl = "local"
    /\ At(t, "instance", "enter")
    /\ LET f == Top(t)
           id == Len(objs) + 1
       IN IF object[f.ty] # 0
          THEN /\ stack' = SetTop(t, [f EXCEPT !.pc = "ret"])
               /\ UNCHANGED <<initGuard, objs>>
          ELSE /\ initGuard[f.ty] = 0
               /\ initGuard' = [initGuard EXCEPT ![f.ty] = t]
               /\ objs' = Append(objs, [ty |-> f.ty, st |-> "constructing",
                                        dtors |-> 0])
               /\ stack' = SetTop(t, [f EXCEPT !.pc = "ctor", !.obj = id])
    /\ UNCHANGED <<config, object_, mutex_, object, throwing, result, returned,
                   atexit, phase, liveAtExit, accessed, ncalls, nthrows>>

\* line 171 re-entered by the thread that is initialising `object`: the
\* behaviour is undefined.  The build either never returns (the thread stays
\* at "enter") or raises an exception of the runtime, which is this action.
LocalRecursion(t) ==
    /\ impl = "local"
    /\ At(t, "instance", "enter")
    /\ LET f == Top(t) IN object[f.ty] = 0 /\ initGuard[f.ty] = t
    /\ throwing' = [throwing EXCEPT ![t] = TRUE]
    /\ UNCHANGED <<config, object_, mutex_, object, initGuard, objs, stack,
                   result, returned, atexit, phase, liveAtExit, accessed,
                   ncalls, nthrows>>

\* T's destructor registered ahead of those of the objects completed before.
RegisteredFirst(T) == <<T>> \o atexit

\* The destructors registered so far, with T's added as the construction of
\* `object` completes.
Registered(T) == Append(atexit, T)

\* line 171: T::T() returns; `object` is initialised and its destructor is
\* registered for exit.
LocalInit(t) ==
    /\ impl = "local"
    /\ At(t, "instance", "ctorEnd")
    /\ LET f == Top(t) IN
       /\ objs' = SetSt(objs, f.obj, "live")
       /\ object' = [object EXCEPT ![f.ty] = f.obj]
       /\ initGuard' = [initGuard EXCEPT ![f.ty] = 0]
       /\ atexit' = Registered(f.ty)
       /\ stack' = SetTop(t, [f EXCEPT !.pc = "ret"])
    /\ UNCHANGED <<config, object_, mutex_, throwing, result, returned, phase,
                   liveAtExit, accessed, ncalls, nthrows>>

----------------------------------------------------------------------------
\* Exit: main() has returned and the other threads have ended; the thread
\* of main() runs the registered destructors, last registered first.

BeginExit ==
    /\ phase = "run"
    /\ \A t \in Threads : stack[t] = <<>> /\ ~throwing[t]
    /\ phase' = "exit"
    /\ liveAtExit' = [T \in Types |->
                        IF Slot(T) # 0 /\ objs[Slot(T)].st = "live"
                        THEN Slot(T) ELSE 0]
    /\ UNCHANGED <<config, object_, mutex_, object, initGuard, objs, stack,
                   throwing, result, returned, atexit, accessed, ncalls,
                   nthrows>>

\* Exit running the destructors in the order of their registration.
PopOldest == [next |-> Head(atexit), rest |-> Tail(atexit)]

\* The destructor exit runs next, the last one registered, and the ones left.
PopAtExit == [next |-> atexit[Len(atexit)],
              rest |-> SubSeq(atexit, 1, Len(atexit) - 1)]

ExitReady ==
    /\ phase = "exit"
    /\ stack[MainThread] = <<>>
    /\ ~throwing[MainThread]

\* The guard calling destroy() whatever object_ holds.
GuardUnconditional(T) == TRUE

\* line 100: if (singleton<T>::object_ != NULL)
GuardSeesObject(T) == object_[T] # NULL

Destroying(o, id) ==
    IF id = 0 THEN o
    ELSE [o EXCEPT ![id].st = "destroying", ![id].dtors = @ + 1]

\* lines 98-104: ~object_destroyer(), which calls destroy() (line 87)
GuardDtor ==
    /\ impl = "legacy"
    /\ ExitReady
    /\ atexit # <<>>
    /\ LET T == PopAtExit.next IN
       /\ atexit' = PopAtExit.rest
       /\ IF GuardSeesObject(T)
          THEN /\ stack' = Push(stack, MainThread, DtorFrame(T, object_[T]))
               /\ objs' = Destroying(objs, object_[T])
          ELSE UNCHANGED <<stack, objs>>
    /\ UNCHANGED <<config, object_, mutex_, object, initGuard, throwing, result,
                   returned, phase, liveAtExit, accessed, ncalls, nthrows>>

\* exit destroys the static of line 171
LocalDtor ==
    /\ impl = "local"
    /\ ExitReady
    /\ atexit # <<>>
    /\ LET T == PopAtExit.next IN
       /\ atexit' = PopAtExit.rest
       /\ stack' = Push(stack, MainThread, DtorFrame(T, object[T]))
       /\ objs' = Destroying(objs, object[T])
    /\ UNCHANGED <<config, object_, mutex_, object, initGuard, throwing, result,
                   returned, phase, liveAtExit, accessed, ncalls, nthrows>>

\* T::~T(): the body of the user type's destructor (line 89: delete object_),
\* which may call the instance() of another singleton.
DtorBody(t) ==
    /\ At(t, "dtor", "dtor")
    /\ LET f == Top(t)
           s == SetTop(t, [f EXCEPT !.pc = "dtorEnd"])
           calls == f.obj # 0 /\ dtorCall[f.ty] # None
       IN /\ stack' = IF calls THEN Push(s, t, Frame(dtorCall[f.ty])) ELSE s
          /\ accessed' = IF calls THEN accessed \cup {dtorCall[f.ty]}
                         ELSE accessed
    /\ UNCHANGED <<config, object_, mutex_, object, initGuard, objs, throwing,
                   result, returned, atexit, phase, liveAtExit, ncalls,
                   nthrows>>

\* T::~T() returns; line 90: object_ = NULL
DtorReturn(t) ==
    /\ At(t, "dtor", "dtorEnd")
    /\ LET f == Top(t) IN
       /\ objs' = SetSt(objs, f.obj, "destroyed")
       /\ object_' = IF impl = "legacy" THEN [object_ EXCEPT ![f.ty] = NULL]
                     ELSE object_
       /\ stack' = Pop(t)
    /\ UNCHANGED <<config, mutex_, object, initGuard, throwing, result,
                   returned, atexit, phase, liveAtExit, accessed, ncalls,
                   nthrows>>

ExitDone ==
    /\ ExitReady
    /\ atexit = <<>>
    /\ phase' = "done"
    /\ UNCHANGED <<config, object_, mutex_, object, initGuard, objs, stack,
                   throwing, result, returned, atexit, liveAtExit, accessed,
                   ncalls, nthrows>>

----------------------------------------------------------------------------
Next ==
    \/ \E t \in Threads, T \in Types : Call(t, T)
    \/ \E t \in Threads :
          \/ FirstCheck(t)
          \/ Lock(t)
          \/ SecondCheck(t)
          \/ CtorBody(t)
          \/ Construct(t)
          \/ CtorThrow(t)
          \/ Unlock(t)
          \/ Return(t)
          \/ Unwind(t)
          \/ LocalEnter(t)
          \/ LocalRecursion(t)
          \/ LocalInit(t)
          \/ DtorBody(t)
          \/ DtorReturn(t)
    \/ BeginExit
    \/ GuardDtor
    \/ LocalDtor
    \/ ExitDone

Spec == Init /\ [][Next]_vars

----------------------------------------------------------------------------
\* Properties

ObjsOf(T) == {i \in Ids : objs[i].ty = T}
InSt(T, sts) == {i \in ObjsOf(T) : objs[i].st \in sts}
Frames(t) == {stack[t][i] : i \in 1 .. Len(stack[t])}

\* C1: single instance.  While the program runs and no construction of T has
\* failed, T's constructor has run at most once, and every reference that
\* instance() of T has returned is to the one object constructed.
SingleInstance ==
    \A T \in Types :
        (phase = "run" /\ InSt(T, {"failed"}) = {}) =>
            /\ Cardinality(ObjsOf(T)) <= 1
            /\ \A id \in returned[T] : ObjsOf(T) = {id}

\* C1 witness: one thread's call has returned the object while another
\* thread's call that began before anything was published, and that did not
\* construct, is about to return.
SingleInstanceWitness ==
    \E t1, t2 \in Threads :
        /\ t1 # t2
        /\ phase = "run"
        /\ result[t1].st = "ok"
        /\ At(t2, "instance", "ret")
        /\ Top(t2).after = 0
        /\ Top(t2).obj = 0
        /\ Slot(Top(t2).ty) = result[t1].obj
        /\ Cardinality(ObjsOf(Top(t2).ty)) = 1

\* C2: no partially constructed object is observed.  A call that has seen the
\* slot initialised and is about to return the reference does not return an
\* object whose constructor is still running.
NoPartialObserved ==
    \A t \in Threads :
        At(t, "instance", "ret") =>
            /\ Slot(Top(t).ty) # 0
            /\ objs[Slot(Top(t).ty)].st # "constructing"

\* C3: at most one instance.  In every state the number of T objects that
\* are constructed and not yet destroyed is 0 or 1.
AtMostOneInstance ==
    \A T \in Types : Cardinality(InSt(T, {"live", "destroying"})) <= 1

\* C3 witness: a T was constructed after a construction of T failed, or after
\* an earlier T was torn down, and is the one instance.
AtMostOneInstanceWitness ==
    \E T \in Types :
        /\ InSt(T, {"destroyed"}) # {}
        /\ InSt(T, {"live"}) # {}
        /\ nthrows > 0

\* C4: retry after failure.  The step in which the exception of T::T() leaves
\* instance() leaves the slot not yet created, hands out no reference, leaves
\* T's lock free and, when the call is a thread's own, ends it as a failure;
\* no failed object is ever held by the slot or returned.
RetryAfterFailure ==
    /\ [](\A i \in Ids : objs[i].st = "failed" =>
              /\ Slot(objs[i].ty) # i
              /\ i \notin returned[objs[i].ty])
    /\ [][\A t \in Threads :
            (/\ throwing[t]
             /\ stack[t] # <<>>
             /\ Top(t).op = "instance"
             /\ Top(t).obj # 0
             /\ stack'[t] # stack[t])
            => LET T == Top(t).ty
                   id == Top(t).obj
               IN /\ object_'[T] = NULL
                  /\ object'[T] = 0
                  /\ objs'[id].st = "failed"
                  /\ returned' = returned
                  /\ mutex_'[T] # t
                  /\ initGuard'[T] # t
                  /\ (Len(stack[t]) = 1 =>
                         result'[t] = [st |-> "failed", obj |-> 0])]_vars

\* C4 witness: after a failed construction of T a later call has constructed
\* T and returned it.
RetryAfterFailureWitness ==
    \E T \in Types, t \in Threads :
        /\ InSt(T, {"failed"}) # {}
        /\ Slot(T) # 0
        /\ objs[Slot(T)].st = "live"
        /\ result[t] = [st |-> "ok", obj |-> Slot(T)]

\* A's constructor calls instance() of B, and both were live when exit began.
Depends(A, B) ==
    /\ A # B
    /\ ctorCall[A] = B
    /\ liveAtExit[A] # 0
    /\ liveAtExit[B] # 0

\* C5 as stated: in the local-static build, B's destructor runs strictly
\* before A's: once A's destructor has begun, B is destroyed.
DependencyDestroyedFirst ==
    impl = "local" =>
        \A A, B \in Types :
            (Depends(A, B) /\ objs[liveAtExit[A]].st \in {"destroying", "destroyed"})
                => objs[liveAtExit[B]].st = "destroyed"

\* C5 amended: in the local-static build, A's destructor runs strictly before
\* B's: once B's destructor has begun, A is destroyed.
DependentDestroyedFirst ==
    impl = "local" =>
        \A A, B \in Types :
            (Depends(A, B) /\ objs[liveAtExit[B]].st \in {"destroying", "destroyed"})
                => objs[liveAtExit[A]].st = "destroyed"

\* C5 witness: exit is running B's destructor, A depends on B.
DependentDestroyedFirstWitness ==
    /\ impl = "local"
    /\ \E A, B \in Types : Depends(A, B) /\ objs[liveAtExit[B]].st = "destroying"

\* C6: a dependency outlives its dependents.  In the local-static build B is
\* live for as long as the destructor of A runs.
DependencyOutlives ==
    impl = "local" =>
        \A A, B \in Types :
            (Depends(A, B) /\ objs[liveAtExit[A]].st = "destroying")
                => objs[liveAtExit[B]].st = "live"

\* C6 witness: A's destructor, running at exit, has called instance() of B,
\* which is about to return B.
DependencyOutlivesWitness ==
    /\ impl = "local"
    /\ phase = "exit"
    /\ \E A, B \in Types :
          /\ Depends(A, B)
          /\ dtorCall[A] = B
          /\ objs[liveAtExit[A]].st = "destroying"
          /\ At(MainThread, "instance", "ret")
          /\ Top(MainThread).ty = B

\* C7: no re-creation after teardown.  Once an instance of T has been
\* destroyed, the slot of T holds no live instance and no T is under
\* construction.
NoRecreation ==
    \A T \in Types :
        InSt(T, {"destroyed"}) # {} =>
            /\ InSt(T, {"constructing", "live"}) = {}
            /\ \A i \in ObjsOf(T) : objs[i].st = "destroying" => i = Slot(T)

\* C8: lock-free steady state.  In the legacy build a call that began after
\* the instance was published passes the first check to the return, never
\* takes the lock, and returns the published object.
LockFreeSteadyState ==
    impl = "legacy" =>
        \A t \in Threads : \A f \in Frames(t) :
            (f.op = "instance" /\ f.after # 0) =>
                /\ f.pc \in {"check1", "ret"}
                /\ f.pc = "ret" => object_[f.ty] = f.after

\* C9: exactly-once automatic destruction.  No object is destroyed twice,
\* none is destroyed while the program runs, and when exit has finished
\* every object that was constructed has been destroyed once.
DestroyedExactlyOnce ==
    /\ \A i \in Ids : objs[i].dtors <= 1
    /\ phase = "run" => \A i \in Ids : objs[i].st \notin {"destroying", "destroyed"}
    /\ phase = "done" =>
          \A i \in Ids : objs[i].st # "failed" =>
              objs[i].st = "destroyed" /\ objs[i].dtors = 1

\* C10: laziness.  A T whose instance() has not been called has no object,
\* constructed or under construction, an empty slot, and is not being
\* destroyed by exit.
Laziness ==
    \A T \in Types :
        T \notin accessed =>
            /\ ObjsOf(T) = {}
            /\ Slot(T) = 0
            /\ returned[T] = {}
            /\ \A t \in Threads : \A f \in Frames(t) : f.ty # T

\* C10 witness: exit has finished, T was never accessed, and the instance of
\* another type has been destroyed.
LazinessWitness ==
    /\ phase = "done"
    /\ \E T, U \in Types :
          /\ T \notin accessed
          /\ ObjsOf(T) = {}
          /\ InSt(U, {"destroyed"}) # {}

\* C11: the legacy build replicates the dependency-ordered teardown.  When
\* A's constructor called instance() of B and both were live at exit, the
\* guards delete A's instance before B's: once the deletion of B has begun,
\* A is destroyed.
LegacyDependentDeletedFirst ==
    impl = "legacy" =>
        \A A, B \in Types :
            (Depends(A, B) /\ objs[liveAtExit[B]].st \in {"destroying", "destroyed"})
                => objs[liveAtExit[A]].st = "destroyed"

\* The T objects whose construction has completed.
Completed(T) == InSt(T, {"live", "destroying", "destroyed"})

\* C12: depth-first construction order.  When A's constructor calls
\* instance() of B, an A whose construction has completed implies a B whose
\* construction has completed: A is never live while B is not yet created or
\* still under construction.
DepthFirstConstruction ==
    \A A, B \in Types :
        (A # B /\ ctorCall[A] = B /\ InSt(A, {"live"}) # {})
            => Completed(B) # {}

\* Frame j of thread t is a call of instance() of T made, directly or through
\* other constructors, by the constructor of T that frame i of t is running.
Reentered(t, i, j) ==
    /\ i < j
    /\ j <= Len(stack[t])
    /\ stack[t][i].op = "instance"
    /\ stack[t][j].op = "instance"
    /\ stack[t][i].ty = stack[t][j].ty
    /\ stack[t][i].obj # 0
    /\ objs[stack[t][i].obj].st = "constructing"

\* The inner call of thread t waits for T's mutex, which t itself holds.
SelfBlocked(t) ==
    /\ At(t, "instance", "lock")
    /\ mutex_[Top(t).ty] = t

\* C13: re-entrant self-access in the legacy build.  The inner call finds the
\* slot unset and goes no further than the lock: it starts no construction,
\* the unfinished object is the only T under construction and is never
\* returned; and a thread waiting for the mutex it holds never moves again.
ReentrantSelfAccessBlocks ==
    /\ [](impl = "legacy" =>
            \A t \in Threads : \A i, j \in 1 .. Len(stack[t]) :
                Reentered(t, i, j) =>
                    /\ stack[t][j].pc \in {"check1", "lock"}
                    /\ stack[t][j].obj = 0
                    /\ object_[stack[t][i].ty] = NULL
                    /\ stack[t][i].obj \notin returned[stack[t][i].ty]
                    /\ InSt(stack[t][i].ty, {"constructing", "live"})
                          = {stack[t][i].obj})
    /\ [][\A t \in Threads : SelfBlocked(t) => stack'[t] = stack[t]]_vars

\* C13 witness: the inner call waits at the lock of the mutex its own thread
\* took for the construction that made the call.
ReentrantSelfAccessWitness ==
    /\ impl = "legacy"
    /\ \E t \in Threads :
          /\ SelfBlocked(t)
          /\ \E i \in 1 .. Len(stack[t]) : Reentered(t, i, Len(stack[t]))

\* Frame f is inside the slow path of its type: between taking the lock and
\* releasing it (lines 73-79), or initialising the static (line 171).
Holds(f) ==
    /\ f.op = "instance"
    /\ IF impl = "legacy" THEN f.pc \in {"check2", "ctor", "ctorEnd", "unlock"}
       ELSE f.obj # 0 /\ f.pc \in {"ctor", "ctorEnd"}

\* C14: per-type isolation.  A step of an instance() call for T leaves the
\* pointer, the static, the lock, the objects and the returned references of
\* every other type U unchanged; and a call for U waits at U's lock, or at
\* U's static, only while some thread is inside the slow path of U itself.
PerTypeIsolation ==
    /\ [](\A t \in Threads :
            /\ (At(t, "instance", "lock") /\ ~MutexFree(Top(t).ty)) =>
                  \E u \in Threads : \E f \in Frames(u) :
                      Holds(f) /\ f.ty = Top(t).ty
            /\ (At(t, "instance", "enter") /\ object[Top(t).ty] = 0
                                           /\ initGuard[Top(t).ty] # 0) =>
                  \E u \in Threads : \E f \in Frames(u) :
                      Holds(f) /\ f.ty = Top(t).ty)
    /\ [][\A t \in Threads : \A U \in Types :
            (/\ stack[t] # <<>>
             /\ Top(t).op = "instance"
             /\ Top(t).ty # U
             /\ stack'[t] # stack[t] \/ throwing'[t] # throwing[t])
            => /\ object_'[U] = object_[U]
               /\ mutex_'[U] = mutex_[U]
               /\ object'[U] = object[U]
               /\ initGuard'[U] = initGuard[U]
               /\ returned'[U] = returned[U]
               /\ \A i \in 1 .. Len(objs') :
                     objs'[i].ty = U => i <= Len(objs) /\ objs'[i] = objs[i]]_vars

\* C14 witness: two threads are constructing the instances of two types at
\* the same time, each inside the slow path of its own type.
PerTypeIsolationWitness ==
    \E t, u \in Threads :
        /\ t # u
        /\ At(t, "instance", "ctorEnd")
        /\ At(u, "instance", "ctorEnd")
        /\ Top(t).ty # Top(u).ty
        /\ Len(stack[t]) = 1
        /\ Len(stack[u]) = 1

----------------------------------------------------------------------------
\* The type reached from T after n calls from constructor to instance().
RECURSIVE CallChain(_, _)
CallChain(T, n) ==
    IF n = 0 \/ T = None THEN T ELSE CallChain(ctorCall[T], n - 1)

\* No constructor reaches, through the instance() calls of constructors, the
\* instance() of its own type.
Acyclic == \A T \in Types : CallChain(T, Cardinality(Types)) = None

\* Fair scheduling while the program runs, before exit: the threads race on
\* the first accesses, and a thread that can take a step of the instance()
\* call it is in eventually takes one.  The constructors call each other
\* acyclically; no destructor runs, so what a destructor calls is left out.
ThreadStep(t) ==
    \/ FirstCheck(t)
    \/ Lock(t)
    \/ SecondCheck(t)
    \/ CtorBody(t)
    \/ Construct(t)
    \/ Unlock(t)
    \/ Return(t)
    \/ Unwind(t)
    \/ LocalEnter(t)
    \/ LocalInit(t)

FairInit ==
    /\ Init
    /\ Acyclic
    /\ \A T \in Types : dtorCall[T] = None
    /\ impl = "legacy" => atexit = CHOOSE o \in Orders(Types) : TRUE

FairNext ==
    \/ \E t \in Threads, T \in Types : Call(t, T)
    \/ \E t \in Threads : ThreadStep(t)
    \/ \E t \in Threads : CtorThrow(t)

FairSpec ==
    /\ FairInit
    /\ [][FairNext]_vars
    /\ \A t \in Threads : WF_vars(ThreadStep(t))

\* C15: deadlock freedom for acyclic dependencies.  Under fair scheduling,
\* with an acyclic graph of constructor calls, every thread that is inside
\* instance() gets out of it: its calls return, or end with the exception of
\* a constructor.
EventuallyReturns ==
    \A t \in Threads : (Acyclic /\ stack[t] # <<>>) ~> (stack[t] = <<>>)

\* C15 witness: with an acyclic graph, a thread constructing A holds A's
\* mutex and waits, in A's constructor, for B's mutex, which another thread
\* constructing B holds.
EventuallyReturnsWitness ==
    /\ Acyclic
    /\ \E t, u \in Threads :
          /\ t # u
          /\ Len(stack[t]) = 2
          /\ At(t, "instance", "lock")
          /\ mutex_[stack[t][1].ty] = t
          /\ mutex_[Top(t).ty] = u

\* The frames, over all threads, of calls of instance() of T that are between
\* the second check and the assignment of the pointer.
Constructing(T) ==
    {x \in UNION {{<<t, k>> : k \in 1 .. Len(stack[t])} : t \in Threads} :
        LET t == x[1]
            k == x[2]
        IN
        /\ stack[t][k].op = "instance"
        /\ stack[t][k].ty = T
        /\ stack[t][k].pc \in {"ctor", "ctorEnd"}}

\* C16: lock discipline of the legacy build.  Every T under construction is
\* being constructed by a thread that holds T's mutex; at most one call of
\* instance() of T is between the second check and the assignment; a thread
\* inside the scoped_lock block holds the mutex; and the mutex is held only
\* by a thread inside that block, so it is free after a return and after a
\* constructor failure alike.
LockDiscipline ==
    impl = "legacy" =>
        /\ \A i \in Ids : objs[i].st = "constructing" =>
              \E t \in Threads : \E f \in Frames(t) :
                  f.op = "instance" /\ f.obj = i /\ mutex_[f.ty] = t
        /\ \A T \in Types : Cardinality(Constructing(T)) <= 1
        /\ \A t \in Threads : \A f \in Frames(t) : Holds(f) => mutex_[f.ty] = t
        /\ \A T \in Types : mutex_[T] # 0 =>
              \E f \in Frames(mutex_[T]) : Holds(f) /\ f.ty = T

\* C16 witness: one call has ended with the failure of the constructor,
\* another has returned, no thread is inside instance() and every mutex is
\* free.
LockDisciplineWitness ==
    /\ impl = "legacy"
    /\ \E t, u \in Threads : result[t].st = "failed" /\ result[u].st = "ok"
    /\ \A t \in Threads : stack[t] = <<>>
    /\ \A T \in Types : mutex_[T] = 0

====
